---- MODULE Spec2Model ----
(***************************************************************************)
(* A model of kemono.py: download_posts resolves the requested posts one   *)
(* by one in the main thread (get_post_data, KemonoPost.from_json,         *)
(* get_creator_data behind functools.cache), submits one                   *)
(* download_attachment task per attachment to a ThreadPoolExecutor, and    *)
(* summarize_download folds the finished futures into counts and a size.   *)
(* Every retry-wrapped body is re-invoked by tenacity until it succeeds or *)
(* stop_after_attempt(5) says stop.                                        *)
(***************************************************************************)
EXTENDS Integers, Sequences, FiniteSets, TLC

VARIABLES
    urls,          \* args.URLS: the requested post URLs, each a sequence of '/'-segments
    thread_count,  \* args.threads
    pc,            \* position of the main thread
    ui,            \* 1-based index of the URL the posts generator is at
    pcall,         \* the current / last get_post_data call (tenacity's statistics)
    ccall,         \* the current / last underlying get_creator_data call
    cache,         \* functools.cache of get_creator_data: key -> Creator
    nextObj,       \* identity of the next object Creator.from_json constructs
    posts,         \* the KemonoPost objects the generator has yielded so far
    si,            \* 1-based index of the next attachment of the current post to submit
    tasks,         \* attachment_download_tasks: the futures, in submission order
    queue,         \* the executor's work queue (indices into tasks), FIFO
    net,           \* the remote side: per URL requests seen, failures answered, recovered
    flaky,         \* the remote side: a URL that failed more often than this stays down
    budget,        \* the remote side: failed answers in all that a success may follow
    dirs,          \* directories that exist on the file system
    files,         \* files on the file system: path -> size in bytes
    logged,        \* logging.error calls made by log_errors, per URL the failed call was for
    summary        \* what summarize_download computed

vars == <<urls, thread_count, pc, ui, pcall, ccall, cache, nextObj, posts, si,
          tasks, queue, net, flaky, budget, dirs, files, logged, summary>>

-----------------------------------------------------------------------------
(* Bounds of the model *)

MaxUrls == 2
MaxThreads == 2
MaxTransient == 1
MaxFlakyRetry == 5

(* Program constants *)

MAX_ATTEMPTS == 5

(* Python's None, by the type of the place it stands in *)

NoFilename == ""
NoPath == << >>
NoError == [type |-> "None"]
NoSummary == [computed |-> FALSE]

-----------------------------------------------------------------------------
(* Small helpers on sequences *)

Last(s) == s[Len(s)]

RECURSIVE JoinWith(_, _)
JoinWith(s, sep) ==
    IF Len(s) = 0 THEN ""
    ELSE IF Len(s) = 1 THEN s[1]
    ELSE s[1] \o sep \o JoinWith(Tail(s), sep)

Prefixes(s) == {SubSeq(s, 1, n) : n \in 1..Len(s)}

IntStr(n) ==
    CASE n = 0 -> "0" [] n = 1 -> "1" [] n = 2 -> "2" [] n = 3 -> "3"
      [] n = 4 -> "4" [] n = 5 -> "5" [] n = 6 -> "6" [] n = 7 -> "7"
      [] n = 8 -> "8" [] OTHER -> "9"

-----------------------------------------------------------------------------
(* The remote side: what kemono.su holds.  A payload is the parsed JSON, a *)
(* dict being a function on its keys; a remote path is kept as its         *)
(* '.'-separated segments so that rsplit(".", maxsplit=1)[-1] is Last.     *)

DataServer == "https://n1.kemono.su"

PostIds == {"11", "12", "13"}

PostJson(pid) ==
    CASE pid = "11" ->
           [post |-> [id |-> "11", title |-> "A", user |-> "c1", service |-> "fanbox"],
            previews |-> << [name |-> "x.jpg", path |-> <<"/aa/h1", "jpg">>, server |-> DataServer],
                            [name |-> "y.png", path |-> <<"/bb/h2", "png">>, server |-> DataServer] >>,
            attachments |-> << [name |-> "1.jpg", path |-> <<"/cc/h3", "jpg">>, server |-> DataServer] >>]
      [] pid = "12" ->
           [post |-> [id |-> "12", title |-> "B", user |-> "c1", service |-> "fanbox"],
            previews |-> << >>,
            attachments |-> << [name |-> "a.zip", path |-> <<"/dd/h4", "zip">>, server |-> DataServer] >>]
      [] OTHER ->
           [post |-> [id |-> "13", user |-> "c1", service |-> "fanbox"],
            previews |-> << >>,
            attachments |-> << >>]

ProfileJson(service, creator_id) ==
    [id |-> creator_id, service |-> service,
     name |-> IF creator_id = "c1" THEN "Alice" ELSE "Bob"]

\* len(res.content) of the file stored under a remote path
BodySize(path) ==
    CASE path[1] = "/aa/h1" -> 3 [] path[1] = "/bb/h2" -> 5
      [] path[1] = "/cc/h3" -> 7 [] path[1] = "/dd/h4" -> 11 [] OTHER -> 1

PostUrl(pid) ==
    <<"https:", "", "kemono.su", PostJson(pid).post.service, "user",
      PostJson(pid).post.user, "post", pid>>

Urls == {PostUrl(pid) : pid \in PostIds}

-----------------------------------------------------------------------------
(* URLs of the three kinds of request *)

\* url.split('/')[3::2]: every second segment from index 3 (0-based) on
UrlArgs(url) ==
    IF Len(url) < 4 THEN << >>
    ELSE [i \in 1..((Len(url) - 2) \div 2) |-> url[2 * i + 2]]

PostApiUrl(service, creator_id, post_id) ==
    "https://kemono.su/api/v1/" \o service \o "/user/" \o creator_id
        \o "/post/" \o post_id

ProfileApiUrl(service, creator_id) ==
    "https://kemono.su/api/v1/" \o service \o "/user/" \o creator_id \o "/profile"

DownloadUrl(attachment) ==
    attachment.server \o "/data" \o JoinWith(attachment.path, ".")

-----------------------------------------------------------------------------
(* Decoding: Creator.from_json, KemonoAttachment.from_json and             *)
(* KemonoPost.from_json.  A missing key is a KeyError.                     *)

DEFAULT_DOWNLOADS_PATH == <<"downloads">>

Creator_from_json(json, obj) ==
    [obj |-> obj, id |-> json.id, name |-> json.name, service |-> json.service]

AttachmentKeysOk(json) == {"name", "path", "server"} \subseteq DOMAIN json

Attachment_from_json(json, filename, folder_path) ==
    [name |-> json.name,
     path |-> json.path,
     server |-> json.server,
     filename |-> IF filename = NoFilename THEN json.name ELSE filename,
     parent_path |-> IF folder_path = NoPath THEN DEFAULT_DOWNLOADS_PATH ELSE folder_path]

\* f'{picture_number}.{picture_json["path"].rsplit(".", maxsplit=1)[-1]}'
PictureFilename(picture_number, picture_json) ==
    IntStr(picture_number) \o "." \o Last(picture_json.path)

\* DEFAULT_DOWNLOADS_PATH / f'[{creator.name}] {title} ({post_id})'
FolderPath(creator, title, post_id) ==
    Append(DEFAULT_DOWNLOADS_PATH,
           "[" \o creator.name \o "] " \o title \o " (" \o post_id \o ")")

\* what from_json reads before it calls get_creator_data
PostHeadOk(json) ==
    /\ "post" \in DOMAIN json
    /\ {"user", "service"} \subseteq DOMAIN json.post

\* what from_json reads after get_creator_data has returned
PostTailOk(json) ==
    /\ {"id", "title"} \subseteq DOMAIN json.post
    /\ "previews" \in DOMAIN json
    /\ \A i \in 1..Len(json.previews) : AttachmentKeysOk(json.previews[i])
    /\ "attachments" \in DOMAIN json
    /\ \A i \in 1..Len(json.attachments) : AttachmentKeysOk(json.attachments[i])

\* the arguments get_creator_data is called with: the cache key
CreatorKey(json) == <<json.post.user, json.post.service>>

Post_from_json(json, creator) ==
    LET folder_path == FolderPath(creator, json.post.title, json.post.id) IN
    [id |-> json.post.id,
     title |-> json.post.title,
     pictures |-> [n \in 1..Len(json.previews) |->
                     Attachment_from_json(json.previews[n],
                                          PictureFilename(n, json.previews[n]),
                                          folder_path)],
     file_attachments |-> [n \in 1..Len(json.attachments) |->
                     Attachment_from_json(json.attachments[n], NoFilename, folder_path)],
     creator |-> creator,
     folder_path |-> folder_path]

\* (*post.pictures, *post.file_attachments)
FlattenWrongOrder(post) == post.file_attachments \o post.pictures

Flatten(post) == post.pictures \o post.file_attachments

-----------------------------------------------------------------------------
(* tenacity.retry(stop=stop_after_attempt(5)): a call counts its attempts; *)
(* after a failed attempt it stops and raises RetryError around the last   *)
(* failure once the attempt number has reached the limit, and re-invokes   *)
(* the body otherwise.                                                     *)

NewCall == [attempts |-> 0, fails |-> 0, last |-> NoError, status |-> "running"]

StopOneLate(attempt_number) == attempt_number > MAX_ATTEMPTS

StopAfterAttempt(attempt_number) == attempt_number >= MAX_ATTEMPTS

BeginAttempt(call) == [call EXCEPT !.attempts = @ + 1]

AfterFailure(call, err) ==
    [attempts |-> call.attempts,
     fails |-> call.fails + 1,
     last |-> err,
     status |-> IF StopAfterAttempt(call.attempts) THEN "raised" ELSE "running"]

AfterSuccess(call) == [call EXCEPT !.status = "returned"]

HttpError(url, n) == [type |-> "HTTPError", url |-> url, n |-> n]
FileExistsError == [type |-> "FileExistsError"]
FileNotFoundError == [type |-> "FileNotFoundError"]
NotADirectoryError == [type |-> "NotADirectoryError"]
KeyError == [type |-> "KeyError"]
RetryError(call) == [type |-> "RetryError", last |-> call.last]

-----------------------------------------------------------------------------
(* httpx.get(url).raise_for_status(): the remote side answers each request *)
(* with a success or a failure.  A URL that has answered successfully      *)
(* keeps doing so; one that has failed more than flaky times is down for   *)
(* the rest of the run, and so is any URL still failing once the failures  *)
(* of the URLs that recovered have used up the budget.                     *)

AllAttachments ==
    UNION {{PostJson(pid).previews[i] : i \in 1..Len(PostJson(pid).previews)}
           \cup {PostJson(pid).attachments[i] : i \in 1..Len(PostJson(pid).attachments)}
           : pid \in PostIds}

\* the creators that have a profile: (creator_id, service)
Keys == {<<"c1", "fanbox">>, <<"c2", "patreon">>}

AllUrls ==
    {PostApiUrl(UrlArgs(u)[1], UrlArgs(u)[2], UrlArgs(u)[3]) : u \in Urls}
    \cup {ProfileApiUrl(k[2], k[1]) : k \in Keys}
    \cup {DownloadUrl(a) : a \in AllAttachments}

MayFail(url) == ~net[url].up

RECURSIVE SumFails(_, _)
SumFails(n, us) ==
    IF us = {} THEN 0
    ELSE LET u == CHOOSE x \in us : TRUE IN n[u].fails + SumFails(n, us \ {u})

\* the failed answers of the URLs that have recovered
Spent == SumFails(net, {u \in DOMAIN net : net[u].up})

MaySucceed(url) ==
    \/ net[url].up
    \/ net[url].fails <= flaky /\ Spent + net[url].fails <= budget

Answers(url) == {ok \in BOOLEAN : IF ok THEN MaySucceed(url) ELSE MayFail(url)}

Answered(url, ok) ==
    [net EXCEPT ![url] = [reqs |-> @.reqs + 1,
                          fails |-> @.fails + (IF ok THEN 0 ELSE 1),
                          up |-> @.up \/ ok]]

-----------------------------------------------------------------------------
(* log_errors: the outermost decorator of the three operations.  An        *)
(* exception that leaves the decorated call is logged once and re-raised;  *)
(* the log is kept as a count per URL the call was for.                    *)

LogError(lg, url) == [lg EXCEPT ![url] = @ + 1]

-----------------------------------------------------------------------------
(* functools.cache: a dict keyed by the call's arguments.  A hit returns   *)
(* the stored object; a miss calls the wrapped function and stores what it *)
(* returns.  Nothing is stored when the wrapped function raises.           *)

CacheNeverHits(c, key) == FALSE

CacheHit(c, key) == key \in DOMAIN c

CacheStoreDrops(c, key, creator) == c

CacheStore(c, key, creator) ==
    [k \in DOMAIN c \cup {key} |-> IF k = key THEN creator ELSE c[k]]

-----------------------------------------------------------------------------
(* The state after construction: the arguments are parsed, the posts       *)
(* generator is created and the executor is entered; nothing has been      *)
(* requested yet.                                                          *)

\* the requested URLs: up to MaxUrls distinct posts, in any order
UrlLists ==
    {us \in UNION {[1..n -> Urls] : n \in 1..MaxUrls} :
        \A i, j \in 1..Len(us) : us[i] = us[j] => i = j}

InitProgram ==
    /\ ui = 1
    /\ pcall = NewCall
    /\ ccall = NewCall
    /\ cache = << >>
    /\ nextObj = 1
    /\ posts = << >>
    /\ si = 1
    /\ tasks = << >>
    /\ queue = << >>
    /\ net = [u \in AllUrls |-> [reqs |-> 0, fails |-> 0, up |-> FALSE]]
    /\ logged = [u \in AllUrls |-> 0]
    /\ summary = NoSummary

Init ==
    /\ urls \in UrlLists
    /\ thread_count \in 1..MaxThreads
    /\ flaky = MaxTransient
    /\ budget = MaxTransient
    /\ pc = "resolve"
    /\ dirs = {}
    /\ files = << >>
    /\ InitProgram

\* one requested post and one worker, against a remote side that may recover
\* after any number of failures up to MaxFlakyRetry
InitRetry ==
    /\ urls \in {us \in UrlLists : Len(us) = 1}
    /\ thread_count = 1
    /\ flaky = MaxFlakyRetry
    /\ budget = MaxFlakyRetry * Cardinality(AllUrls)
    /\ pc = "resolve"
    /\ dirs = {}
    /\ files = << >>
    /\ InitProgram

-----------------------------------------------------------------------------
(* get_post_data: one action per invocation of the retried body.  A call   *)
(* that has used up its attempts raises RetryError: log_errors logs it and *)
(* re-raises it, and it then leaves the generator.  The pool threads run   *)
(* between the answer, the log call and the exception leaving.             *)

\* the URL the generator is at, as get_post_data's arguments
Args == UrlArgs(urls[ui])

\* the retried body of get_post_data failed with err: tenacity invokes it
\* again, or raises RetryError into log_errors
PostBodyFailed(call, err) ==
    LET after == AfterFailure(call, err) IN
    /\ pcall' = after
    /\ pc' = IF after.status = "raised" THEN "log" ELSE "resolve"
    /\ UNCHANGED <<posts, si>>

\* KemonoPost.from_json from the point where get_creator_data has returned
PostBodyRest(call, json, creator) ==
    IF PostTailOk(json)
    THEN /\ pcall' = AfterSuccess(call)
         /\ posts' = Append(posts, Post_from_json(json, creator))
         /\ si' = 1
         /\ pc' = "submit"
    ELSE PostBodyFailed(call, KeyError)

PostAttempt(ok) ==
    LET url == PostApiUrl(Args[1], Args[2], Args[3])
        call == BeginAttempt(pcall)
        json == PostJson(Args[3])
    IN
    /\ pc = "resolve"
    /\ ok \in Answers(url)
    /\ net' = Answered(url, ok)
    /\ IF ~ok
       THEN /\ PostBodyFailed(call, HttpError(url, net[url].reqs + 1))
            /\ UNCHANGED ccall
       ELSE IF ~PostHeadOk(json)
       THEN /\ PostBodyFailed(call, KeyError)
            /\ UNCHANGED ccall
       ELSE IF CacheHit(cache, CreatorKey(json))
       THEN /\ PostBodyRest(call, json, cache[CreatorKey(json)])
            /\ UNCHANGED ccall
       ELSE /\ pcall' = call
            /\ ccall' = NewCall
            /\ pc' = "profile"
            /\ UNCHANGED <<posts, si>>
    /\ UNCHANGED <<urls, thread_count, ui, cache, nextObj, tasks, queue, dirs,
                   files, logged, summary, flaky, budget>>

\* log_errors around get_post_data: logging.error(e)
PostLog ==
    /\ pc = "log"
    /\ logged' = LogError(logged, PostApiUrl(Args[1], Args[2], Args[3]))
    /\ pc' = "raise"
    /\ UNCHANGED <<urls, thread_count, ui, pcall, ccall, cache, nextObj, posts, si,
                   tasks, queue, net, dirs, files, summary, flaky, budget>>

\* log_errors around get_post_data: raise; the exception leaves the
\* generator and the list comprehension
PostRaise ==
    /\ pc = "raise"
    /\ pc' = "shutdown"
    /\ UNCHANGED <<urls, thread_count, ui, pcall, ccall, cache, nextObj, posts, si,
                   tasks, queue, net, dirs, files, logged, summary, flaky, budget>>

\* get_creator_data on a cache miss: one invocation of its retried body
ProfileAttempt(ok) ==
    LET json == PostJson(Args[3])
        key == CreatorKey(json)
        url == ProfileApiUrl(key[2], key[1])
        call == BeginAttempt(ccall)
        creator == Creator_from_json(ProfileJson(key[2], key[1]), nextObj)
        after == AfterFailure(call, HttpError(url, net[url].reqs + 1))
    IN
    /\ pc = "profile"
    /\ ok \in Answers(url)
    /\ net' = Answered(url, ok)
    /\ IF ok
       THEN /\ ccall' = AfterSuccess(call)
            /\ nextObj' = nextObj + 1
            /\ cache' = CacheStore(cache, key, creator)
            /\ PostBodyRest(pcall, json, creator)
       ELSE /\ ccall' = after
            /\ pc' = IF after.status = "raised" THEN "clog" ELSE "profile"
            /\ UNCHANGED <<nextObj, cache, pcall, posts, si>>
    /\ UNCHANGED <<urls, thread_count, ui, tasks, queue, dirs, files, logged,
                   summary, flaky, budget>>

\* log_errors around get_creator_data: logging.error(e)
CreatorLog ==
    LET key == CreatorKey(PostJson(Args[3])) IN
    /\ pc = "clog"
    /\ logged' = LogError(logged, ProfileApiUrl(key[2], key[1]))
    /\ pc' = "craise"
    /\ UNCHANGED <<urls, thread_count, ui, pcall, ccall, cache, nextObj, posts, si,
                   tasks, queue, net, dirs, files, summary, flaky, budget>>

\* log_errors around get_creator_data: raise; the RetryError fails the body
\* of get_post_data that called KemonoPost.from_json
CreatorRaise ==
    /\ pc = "craise"
    /\ PostBodyFailed(pcall, RetryError(ccall))
    /\ UNCHANGED <<urls, thread_count, ui, ccall, cache, nextObj, tasks, queue, net,
                   dirs, files, logged, summary, flaky, budget>>

-----------------------------------------------------------------------------
(* download_posts: the list comprehension submits one task per attachment  *)
(* of the post the generator yielded, then asks the generator for the next *)
(* post; leaving the with block waits for every submitted task.            *)

NewTask(attachment) ==
    [att |-> attachment, state |-> "PENDING", at |-> "queue", lvl |-> 0,
     call |-> NewCall, result |-> NoPath]

\* executor.submit(download_attachment, attachment)
Submit ==
    LET flat == Flatten(Last(posts)) IN
    /\ pc = "submit"
    /\ si <= Len(flat)
    /\ tasks' = Append(tasks, NewTask(flat[si]))
    /\ queue' = Append(queue, Len(tasks) + 1)
    /\ si' = si + 1
    /\ UNCHANGED <<urls, thread_count, pc, ui, pcall, ccall, cache, nextObj, posts,
                   net, dirs, files, logged, summary, flaky, budget>>

\* for post in posts: the generator moves to the next URL, or is exhausted
\* and the return value is ready
NextPost ==
    /\ pc = "submit"
    /\ si > Len(Flatten(Last(posts)))
    /\ IF ui < Len(urls)
       THEN /\ ui' = ui + 1
            /\ pcall' = NewCall
            /\ pc' = "resolve"
       ELSE /\ pc' = "shutdown"
            /\ UNCHANGED <<ui, pcall>>
    /\ UNCHANGED <<urls, thread_count, ccall, cache, nextObj, posts, si, tasks,
                   queue, net, dirs, files, logged, summary, flaky, budget>>

AllFinished(ts) == \A t \in 1..Len(ts) : ts[t].state = "FINISHED"

\* ThreadPoolExecutor.__exit__: shutdown(wait=True), then the return value or
\* the pending exception leaves download_posts
PoolExitNoWait ==
    /\ pc = "shutdown"
    /\ pc' = IF pcall.status = "raised" THEN "raised" ELSE "returned"
    /\ UNCHANGED <<urls, thread_count, ui, pcall, ccall, cache, nextObj, posts, si,
                   tasks, queue, net, dirs, files, logged, summary, flaky, budget>>

PoolExitSwallows ==
    /\ pc = "shutdown"
    /\ AllFinished(tasks)
    /\ pc' = "returned"
    /\ UNCHANGED <<urls, thread_count, ui, pcall, ccall, cache, nextObj, posts, si,
                   tasks, queue, net, dirs, files, logged, summary, flaky, budget>>

PoolExit ==
    /\ pc = "shutdown"
    /\ AllFinished(tasks)
    /\ pc' = IF pcall.status = "raised" THEN "raised" ELSE "returned"
    /\ UNCHANGED <<urls, thread_count, ui, pcall, ccall, cache, nextObj, posts, si,
                   tasks, queue, net, dirs, files, logged, summary, flaky, budget>>

-----------------------------------------------------------------------------
(* The worker threads: at most max_workers of them, each taking the oldest *)
(* queued work item and running download_attachment to its end.  What the  *)
(* call returns or raises is stored in the task's future.  The workers     *)
(* hold no lock, so what a worker does is a sequence of steps the other    *)
(* threads run between: it takes the item from the queue, sets the future  *)
(* running, creates the folders one os.mkdir at a time, waits in           *)
(* httpx.get, opens the file (which truncates it), writes the body, and    *)
(* returns.  A call that has used up its attempts raises: log_errors logs  *)
(* the error and re-raises it, and the worker then stores it in the        *)
(* future.                                                                 *)

Running(ts) == {t \in 1..Len(ts) : ts[t].state = "RUNNING"}

\* the work items a pool thread holds: taken from the queue, not yet ended
Held(ts) == {t \in 1..Len(ts) : ts[t].at = "taken"} \cup Running(ts)

WorkerFreeAlways(ts, max_workers) == TRUE

WorkerFreeOffByOne(ts, max_workers) == Cardinality(Held(ts)) < max_workers - 1

WorkerFree(ts, max_workers) == Cardinality(Held(ts)) < max_workers

\* _worker: work_item = work_queue.get(block=True)
WorkerTake ==
    /\ queue # << >>
    /\ WorkerFree(tasks, thread_count)
    /\ tasks' = [tasks EXCEPT ![Head(queue)].at = "taken"]
    /\ queue' = Tail(queue)
    /\ UNCHANGED <<urls, thread_count, pc, ui, pcall, ccall, cache, nextObj, posts,
                   si, net, dirs, files, logged, summary, flaky, budget>>

\* _WorkItem.run: future.set_running_or_notify_cancel(), and the call of
\* download_attachment begins
WorkerStart(t) ==
    /\ tasks[t].at = "taken"
    /\ tasks' = [tasks EXCEPT ![t].state = "RUNNING",
                              ![t].at = "mkdir",
                              ![t].lvl = Len(tasks[t].att.parent_path)]
    /\ UNCHANGED <<urls, thread_count, pc, ui, pcall, ccall, cache, nextObj, posts,
                   si, queue, net, dirs, files, logged, summary, flaky, budget>>

\* attachment.parent_path / attachment.filename
FilePath(attachment) == Append(attachment.parent_path, attachment.filename)

\* future.set_result / future.set_exception once the call has ended
FutureSetCancelsPending(ts, t, call, path) ==
    [i \in 1..Len(ts) |->
        IF i = t
        THEN [ts[i] EXCEPT !.call = call,
                           !.result = path,
                           !.state = IF call.status = "running" THEN "RUNNING"
                                     ELSE "FINISHED"]
        ELSE IF call.status = "raised" /\ ts[i].state = "PENDING"
        THEN [ts[i] EXCEPT !.state = "CANCELLED"]
        ELSE ts[i]]

FutureSet(ts, t, call, path) ==
    [ts EXCEPT ![t].call = call,
               ![t].result = path,
               ![t].state = IF call.status = "running" THEN "RUNNING" ELSE "FINISHED"]

\* os.mkdir(q): what it raises.  The path is walked from the top: a
\* missing folder on the way is ENOENT, a file on the way ENOTDIR; with
\* every folder above q in place, anything at q is EEXIST
OsMkdirError(ds, fs, q) ==
    LET bad == {n \in 1..(Len(q) - 1) : SubSeq(q, 1, n) \notin ds} IN
    IF bad # {}
    THEN LET first == CHOOSE n \in bad : \A m \in bad : n <= m IN
         IF SubSeq(q, 1, first) \in DOMAIN fs THEN NotADirectoryError
         ELSE FileNotFoundError
    ELSE IF q \in ds \/ q \in DOMAIN fs THEN FileExistsError
    ELSE NoError

\* Path.mkdir, except OSError: if not exist_ok or not self.is_dir(): raise
ExistNeverOk(ds, q, exist_ok) == FALSE

ExistOk(ds, q, exist_ok) == exist_ok /\ q \in ds

\* os.mkdir(q) where nothing is in its way
MkdirCreatesNothing(ds, q) == ds

Mkdir(ds, q) == ds \cup {q}

\* a file of the given size at path
WriteFile(fs, path, size) ==
    [p \in DOMAIN fs \cup {path} |-> IF p = path THEN size ELSE fs[p]]

\* file_path.open('wb'): the file is created, or truncated when it exists
OpenWb(fs, path) == WriteFile(fs, path, 0)

\* f.write(res.content) and the close that flushes it: size bytes from
\* offset 0 of this handle, over what another handle may have written since
\* the file was opened
WriteBody(fs, path, size) ==
    WriteFile(fs, path, IF fs[path] > size THEN fs[path] ELSE size)

\* where a worker goes after a failed invocation of the body: tenacity
\* invokes the body again, or raises RetryError into log_errors
AfterFailedBody(after) == IF after.status = "raised" THEN "log" ELSE "mkdir"

\* download_attachment: file_path.parent.mkdir(exist_ok=True, parents=True),
\* one os.mkdir at a time.  Path.mkdir tries os.mkdir of the folder itself;
\* on FileNotFoundError it goes to the folder above (at "mkdir", parents
\* and exist_ok true) and, once that one is in place, comes back down with
\* self.mkdir(parents=False) (at "mkup").  lvl is the length of the path of
\* the os.mkdir that is next.
WorkerMkdir(t) ==
    LET attachment == tasks[t].att
        path == attachment.parent_path
        q == SubSeq(path, 1, tasks[t].lvl)
        parents == tasks[t].at = "mkdir"
        err == OsMkdirError(dirs, files, q)
        after == AfterFailure(BeginAttempt(tasks[t].call), err)
        made == [tasks EXCEPT ![t].at = IF tasks[t].lvl = Len(path) THEN "get"
                                        ELSE "mkup",
                              ![t].lvl = IF tasks[t].lvl = Len(path) THEN @
                                         ELSE @ + 1]
    IN
    /\ tasks[t].state = "RUNNING"
    /\ tasks[t].at \in {"mkdir", "mkup"}
    /\ IF err = NoError
       THEN /\ dirs' = Mkdir(dirs, q)
            /\ tasks' = made
       ELSE IF err = FileNotFoundError /\ parents /\ tasks[t].lvl > 1
       THEN /\ tasks' = [tasks EXCEPT ![t].lvl = @ - 1]
            /\ UNCHANGED dirs
       ELSE IF err # FileNotFoundError /\ ExistOk(dirs, q, TRUE)
       THEN /\ tasks' = made
            /\ UNCHANGED dirs
       ELSE /\ tasks' = [tasks EXCEPT ![t].call = after,
                                      ![t].at = AfterFailedBody(after),
                                      ![t].lvl = Len(path)]
            /\ UNCHANGED dirs
    /\ UNCHANGED <<urls, thread_count, pc, ui, pcall, ccall, cache, nextObj, posts,
                   si, queue, net, files, logged, summary, flaky, budget>>

\* download_attachment: httpx.get(...).raise_for_status() has the answer
WorkerAttempt(t, ok) ==
    LET attachment == tasks[t].att
        url == DownloadUrl(attachment)
        call == BeginAttempt(tasks[t].call)
        after == AfterFailure(call, HttpError(url, net[url].reqs + 1))
    IN
    /\ tasks[t].state = "RUNNING"
    /\ tasks[t].at = "get"
    /\ ok \in Answers(url)
    /\ net' = Answered(url, ok)
    /\ tasks' = IF ok
                THEN [tasks EXCEPT ![t].call = call, ![t].at = "open"]
                ELSE [tasks EXCEPT ![t].call = after, ![t].at = AfterFailedBody(after)]
    /\ UNCHANGED <<urls, thread_count, pc, ui, pcall, ccall, cache, nextObj, posts,
                   si, queue, dirs, files, logged, summary, flaky, budget>>

\* download_attachment: with file_path.open('wb') as f
WorkerOpen(t) ==
    /\ tasks[t].state = "RUNNING"
    /\ tasks[t].at = "open"
    /\ files' = OpenWb(files, FilePath(tasks[t].att))
    /\ tasks' = [tasks EXCEPT ![t].at = "write"]
    /\ UNCHANGED <<urls, thread_count, pc, ui, pcall, ccall, cache, nextObj, posts,
                   si, queue, net, dirs, logged, summary, flaky, budget>>

\* download_attachment: f.write(res.content), and the file is closed
WorkerWrite(t) ==
    /\ tasks[t].state = "RUNNING"
    /\ tasks[t].at = "write"
    /\ files' = WriteBody(files, FilePath(tasks[t].att), BodySize(tasks[t].att.path))
    /\ tasks' = [tasks EXCEPT ![t].at = "return"]
    /\ UNCHANGED <<urls, thread_count, pc, ui, pcall, ccall, cache, nextObj, posts,
                   si, queue, net, dirs, logged, summary, flaky, budget>>

\* download_attachment: return file_path, which the worker stores in the
\* future
WorkerReturn(t) ==
    /\ tasks[t].state = "RUNNING"
    /\ tasks[t].at = "return"
    /\ tasks' = [FutureSet(tasks, t, AfterSuccess(tasks[t].call),
                           FilePath(tasks[t].att)) EXCEPT ![t].at = "ended"]
    /\ UNCHANGED <<urls, thread_count, pc, ui, pcall, ccall, cache, nextObj, posts,
                   si, queue, net, dirs, files, logged, summary, flaky, budget>>

\* log_errors around download_attachment: logging.error(e), then raise
WorkerLog(t) ==
    /\ tasks[t].state = "RUNNING"
    /\ tasks[t].at = "log"
    /\ logged' = LogError(logged, DownloadUrl(tasks[t].att))
    /\ tasks' = [tasks EXCEPT ![t].at = "raise"]
    /\ UNCHANGED <<urls, thread_count, pc, ui, pcall, ccall, cache, nextObj, posts,
                   si, queue, net, dirs, files, summary, flaky, budget>>

\* the exception has left download_attachment: the worker stores it in the
\* future
WorkerRaise(t) ==
    /\ tasks[t].state = "RUNNING"
    /\ tasks[t].at = "raise"
    /\ tasks' = [FutureSet(tasks, t, tasks[t].call, NoPath) EXCEPT ![t].at = "ended"]
    /\ UNCHANGED <<urls, thread_count, pc, ui, pcall, ccall, cache, nextObj, posts,
                   si, queue, net, dirs, files, logged, summary, flaky, budget>>

-----------------------------------------------------------------------------
(* summarize_download *)

Exception(task) ==
    IF task.call.status = "raised" THEN RetryError(task.call) ELSE NoError

\* not task.exception()
Succeeded(task) == Exception(task) = NoError

RECURSIVE TotalSize(_, _)
TotalSize(ts, fs) ==
    IF ts = << >> THEN 0
    ELSE fs[Head(ts).result] + TotalSize(Tail(ts), fs)

SummarizeCountsAll(download_tasks, fs) ==
    LET successful_downloads == SelectSeq(download_tasks, Succeeded) IN
    [computed |-> TRUE,
     total_files_submitted |-> Len(download_tasks),
     total_files_downloaded |-> Len(download_tasks),
     total_file_size |-> TotalSize(successful_downloads, fs)]

Summarize(download_tasks, fs) ==
    LET successful_downloads == SelectSeq(download_tasks, Succeeded) IN
    [computed |-> TRUE,
     total_files_submitted |-> Len(download_tasks),
     total_files_downloaded |-> Len(successful_downloads),
     total_file_size |-> TotalSize(successful_downloads, fs)]

\* main_cli: summarize_download(download_posts(...))
SummarizeDownload ==
    /\ pc = "returned"
    /\ summary' = Summarize(tasks, files)
    /\ pc' = "done"
    /\ UNCHANGED <<urls, thread_count, ui, pcall, ccall, cache, nextObj, posts, si,
                   tasks, queue, net, dirs, files, logged, flaky, budget>>

-----------------------------------------------------------------------------

Next ==
    \/ \E ok \in BOOLEAN : PostAttempt(ok)
    \/ \E ok \in BOOLEAN : ProfileAttempt(ok)
    \/ PostLog
    \/ PostRaise
    \/ CreatorLog
    \/ CreatorRaise
    \/ Submit
    \/ NextPost
    \/ PoolExit
    \/ WorkerTake
    \/ \E t \in 1..Len(tasks) : WorkerStart(t)
    \/ \E t \in 1..Len(tasks) : WorkerMkdir(t)
    \/ \E t \in 1..Len(tasks) : \E ok \in BOOLEAN : WorkerAttempt(t, ok)
    \/ \E t \in 1..Len(tasks) : WorkerOpen(t)
    \/ \E t \in 1..Len(tasks) : WorkerWrite(t)
    \/ \E t \in 1..Len(tasks) : WorkerReturn(t)
    \/ \E t \in 1..Len(tasks) : WorkerLog(t)
    \/ \E t \in 1..Len(tasks) : WorkerRaise(t)
    \/ SummarizeDownload

Spec == Init /\ [][Next]_vars

\* the main thread keeps running, and so do the workers: every request
\* is answered, and a thread that can take a step eventually takes one
MainThread ==
    \/ \E ok \in BOOLEAN : PostAttempt(ok)
    \/ \E ok \in BOOLEAN : ProfileAttempt(ok)
    \/ PostLog
    \/ PostRaise
    \/ CreatorLog
    \/ CreatorRaise
    \/ Submit
    \/ NextPost
    \/ PoolExit
    \/ SummarizeDownload

Workers ==
    \/ WorkerTake
    \/ \E t \in 1..Len(tasks) : WorkerStart(t)
    \/ \E t \in 1..Len(tasks) : WorkerMkdir(t)
    \/ \E t \in 1..Len(tasks) : \E ok \in BOOLEAN : WorkerAttempt(t, ok)
    \/ \E t \in 1..Len(tasks) : WorkerOpen(t)
    \/ \E t \in 1..Len(tasks) : WorkerWrite(t)
    \/ \E t \in 1..Len(tasks) : WorkerReturn(t)
    \/ \E t \in 1..Len(tasks) : WorkerLog(t)
    \/ \E t \in 1..Len(tasks) : WorkerRaise(t)

SpecFair == Init /\ [][Next]_vars /\ WF_vars(MainThread) /\ WF_vars(Workers)

SpecRetry == InitRetry /\ [][Next]_vars

-----------------------------------------------------------------------------
(* A second run: the downloads folder is what an earlier run of the same   *)
(* command left behind.  An earlier run that resolved the posts created    *)
(* their folders and stored the attachments whose download succeeded, any  *)
(* of them (bodies the remote side has replaced since); one that did not   *)
(* left nothing.                                                           *)

\* the post a URL resolves to when its payload decodes
ResolvedPost(url) ==
    LET json == PostJson(UrlArgs(url)[3])
        key == CreatorKey(json)
    IN Post_from_json(json, Creator_from_json(ProfileJson(key[2], key[1]), 0))

Decodes(url) ==
    LET json == PostJson(UrlArgs(url)[3]) IN PostHeadOk(json) /\ PostTailOk(json)

\* the attachments download_posts submits for a list of URLs
Submitted(us) ==
    UNION {{Flatten(ResolvedPost(us[i]))[n] : n \in 1..Len(Flatten(ResolvedPost(us[i])))}
           : i \in {k \in 1..Len(us) : Decodes(us[k])}}

LocalPaths(us) == {FilePath(a) : a \in Submitted(us)}

LocalDirs(us) == UNION {Prefixes(a.parent_path) : a \in Submitted(us)}

\* the size of a body of the earlier run
StaleSize == BodySize(<<"/stale">>)

PriorFileSystems(us) ==
    {[dirs |-> {}, files |-> << >>]}
    \cup {[dirs |-> LocalDirs(us), files |-> [p \in stored |-> StaleSize]] :
             stored \in SUBSET LocalPaths(us)}

\* a disk on which a regular file stands where a folder of the run must go:
\* at the downloads folder, or at the folder of the post
BlockedFileSystems(us) ==
    {[dirs |-> Prefixes(q) \ {q}, files |-> [p \in {q} |-> StaleSize]] :
        q \in LocalDirs(us)}

InitRerun ==
    /\ urls \in {us \in UrlLists : Len(us) = 1}
    /\ thread_count \in 1..MaxThreads
    /\ flaky = MaxTransient
    /\ budget = MaxTransient
    /\ pc = "resolve"
    /\ \E prior \in PriorFileSystems(urls) \cup BlockedFileSystems(urls) :
          dirs = prior.dirs /\ files = prior.files
    /\ InitProgram

SpecRerun == InitRerun /\ [][Next]_vars

-----------------------------------------------------------------------------
(* Properties *)

TaskIds == 1..Len(tasks)

Range(s) == {s[i] : i \in 1..Len(s)}

TaskUrl(t) == DownloadUrl(tasks[t].att)

\* the post URL the generator is at, as the API URL requested for it
CurrentPostUrl == PostApiUrl(Args[1], Args[2], Args[3])

ProfileUrlOf(key) == ProfileApiUrl(key[2], key[1])

Successes(url) == net[url].reqs - net[url].fails

\* download_posts has handed its list to the caller
Returned == pc \in {"returned", "done"}

\* the program has ended, with the summary or with an exception
Terminated == pc \in {"done", "raised"}

\* C1: when resolving one requested post fails after its retries, the
\* attachments of every other requested post are still submitted: once the
\* program has ended, every requested post whose payload decodes and whose
\* endpoint never failed has all its attachments among the submitted tasks.
C1_PostFailureIsolated ==
    Terminated =>
        \A i \in 1..Len(urls) :
            LET json == PostJson(UrlArgs(urls[i])[3])
                url == PostApiUrl(UrlArgs(urls[i])[1], UrlArgs(urls[i])[2],
                                  UrlArgs(urls[i])[3])
            IN
            (PostHeadOk(json) /\ PostTailOk(json) /\ net[url].fails = 0) =>
                \A a \in Range(json.previews) \cup Range(json.attachments) :
                    \E t \in TaskIds : tasks[t].att.path = a.path

\* C2: a download task that ends failed never cancels, blocks or changes
\* the outcome of another task: no task is ever in a state other than
\* pending, running or finished; a task that waits is in the queue the
\* workers take from, or in the hands of the worker that took it, whatever
\* has failed before it; a finished task's
\* outcome is decided by the answers to its own requests alone; and when
\* download_posts is left every submitted task has run to its own outcome.
C2_TaskFailureIsolated ==
    /\ \A t \in TaskIds :
          /\ tasks[t].state \in {"PENDING", "RUNNING", "FINISHED"}
          /\ tasks[t].state = "PENDING" => t \in Range(queue) \/ tasks[t].at = "taken"
          /\ tasks[t].state = "FINISHED" =>
                /\ tasks[t].call.status \in {"returned", "raised"}
                /\ tasks[t].call.status = "returned" <=> net[TaskUrl(t)].up
                /\ tasks[t].call.status = "raised" <=>
                       net[TaskUrl(t)].fails = MAX_ATTEMPTS /\ ~net[TaskUrl(t)].up
    /\ pc \in {"returned", "raised", "done"} =>
          \A t \in TaskIds :
              /\ tasks[t].state = "FINISHED"
              /\ net[TaskUrl(t)].reqs >= 1

C2_Witness ==
    /\ pc = "returned"
    /\ thread_count = 1
    /\ Len(tasks) >= 3
    /\ tasks[1].call.status = "raised"
    /\ tasks[2].call.status = "returned"
    /\ tasks[3].call.status = "raised"

\* C3: when download_posts returns its list, every task in it is terminal:
\* it has returned a path or raised, and none is pending or running.
C3_AllTerminalOnReturn ==
    Returned =>
        \A t \in TaskIds :
            /\ tasks[t].state = "FINISHED"
            /\ tasks[t].call.status \in {"returned", "raised"}

C3_Witness ==
    /\ pc = "returned"
    /\ thread_count = 2
    /\ Len(tasks) = 4
    /\ \E t \in TaskIds : tasks[t].call.status = "raised"

\* the attachments of the requested posts in the order of the URLs, each
\* post's previews before its attachments, as the payloads list them
RECURSIVE ExpectedOrder(_)
ExpectedOrder(us) ==
    IF us = << >> THEN << >>
    ELSE LET json == PostJson(UrlArgs(Head(us))[3]) IN
         [i \in 1..Len(json.previews) |-> json.previews[i].path]
         \o [i \in 1..Len(json.attachments) |-> json.attachments[i].path]
         \o ExpectedOrder(Tail(us))

\* C4: the list download_posts returns is in submission order whatever the
\* order in which the workers finish: in every state the i-th task belongs
\* to the i-th attachment of the flattened order (posts in the order of the
\* URLs, within a post all pictures before all file attachments, each in
\* payload order), and the returned list has exactly one entry per
\* attachment.
C4_SubmissionOrder ==
    /\ Len(tasks) <= Len(ExpectedOrder(urls))
    /\ \A t \in TaskIds : tasks[t].att.path = ExpectedOrder(urls)[t]
    /\ Returned => Len(tasks) = Len(ExpectedOrder(urls))

C4_Witness ==
    /\ pc = "shutdown"
    /\ pcall.status = "returned"
    /\ Len(urls) = 2
    /\ Len(tasks) = 4
    /\ tasks[1].state = "RUNNING"
    /\ tasks[2].state = "FINISHED"
    /\ tasks[1].att.filename = "1.jpg"
    /\ tasks[2].att.filename = "2.png"
    /\ tasks[3].att.filename = "1.jpg"

\* C5: at most thread_count download_attachment tasks execute at the same
\* time, the ones a worker has taken and not yet begun counted with them;
\* every other submitted task waits in the queue or is finished.
C5_BoundedParallelism ==
    /\ Cardinality({t \in TaskIds : tasks[t].state = "RUNNING"}) <= thread_count
    /\ Cardinality({t \in TaskIds : tasks[t].state = "RUNNING"
                                       \/ tasks[t].at = "taken"}) <= thread_count
    /\ \A t \in TaskIds :
          \/ tasks[t].state = "RUNNING" /\ t \notin Range(queue)
          \/ tasks[t].state = "PENDING" /\ tasks[t].at = "taken" /\ t \notin Range(queue)
          \/ tasks[t].state = "PENDING" /\ tasks[t].at = "queue" /\ t \in Range(queue)
          \/ tasks[t].state = "FINISHED" /\ t \notin Range(queue)

C5_Witness ==
    /\ thread_count = 2
    /\ Cardinality({t \in TaskIds : tasks[t].state = "RUNNING"}) = 2
    /\ queue # << >>

\* what tenacity promises of one call: it returns at the first successful
\* invocation, after k < 5 failed ones and k + 1 invocations in all, or it
\* raises after exactly 5 invocations that all failed
RetryContract(call) ==
    /\ call.attempts <= MAX_ATTEMPTS
    /\ call.status = "returned" =>
          call.fails < MAX_ATTEMPTS /\ call.attempts = call.fails + 1
    /\ call.status = "raised" =>
          call.fails = MAX_ATTEMPTS /\ call.attempts = MAX_ATTEMPTS

\* C6: every retry-wrapped call (get_post_data, get_creator_data,
\* download_attachment) that returns has invoked its body k + 1 times, the
\* first k < 5 failing, and returns the success result; one that raises has
\* invoked its body exactly 5 times and raises an error that carries the
\* failure of the fifth invocation.  The remote side has seen exactly one
\* request per invocation.
C6_RetryPolicy ==
    /\ RetryContract(pcall)
    /\ RetryContract(ccall)
    /\ net[CurrentPostUrl].reqs = pcall.attempts
    /\ pcall.status = "raised" =>
          \/ pcall.last = HttpError(CurrentPostUrl, MAX_ATTEMPTS)
          \/ pcall.last = KeyError /\ ~PostTailOk(PostJson(Args[3]))
          \/ pcall.last = RetryError(ccall) /\ ccall.status = "raised"
    /\ pcall.status = "returned" => Last(posts).id = Args[3]
    /\ ccall.status = "raised" =>
          \E k \in Keys : ccall.last = HttpError(ProfileUrlOf(k), net[ProfileUrlOf(k)].reqs)
    /\ \A t \in TaskIds :
          /\ RetryContract(tasks[t].call)
          /\ net[TaskUrl(t)].reqs = tasks[t].call.attempts
          /\ tasks[t].call.status = "returned" =>
                tasks[t].result = FilePath(tasks[t].att)
          /\ tasks[t].call.status = "raised" =>
                Exception(tasks[t]) =
                    [type |-> "RetryError",
                     last |-> HttpError(TaskUrl(t), MAX_ATTEMPTS)]

C6_Witness ==
    /\ pc = "returned"
    /\ pcall.status = "returned" /\ pcall.fails = MAX_ATTEMPTS - 1
    /\ ccall.status = "returned" /\ ccall.fails = 2
    /\ \E t \in TaskIds :
          tasks[t].call.status = "returned" /\ tasks[t].call.fails = MAX_ATTEMPTS - 1
    /\ \E t \in TaskIds : tasks[t].call.status = "raised"

\* C7: a decoding failure is not retried: when get_post_data has raised
\* because the payload lacks a required field, the post endpoint has been
\* requested exactly once.
C7_DecodeFailureNotRetried ==
    (pcall.status = "raised" /\ pcall.last = KeyError) =>
        net[CurrentPostUrl].reqs = 1 /\ pcall.attempts = 1

\* C8: two resolutions of the same (service, creatorID) in one run yield the
\* same Creator instance and trigger at most one profile fetch that returns:
\* the posts of one creator hold the same object, and a cached key has had
\* exactly one successful profile request, the last request sent to its
\* endpoint, so no resolution after the first one touches the network.
C8_CreatorCache ==
    /\ \A i, j \in 1..Len(posts) :
          (posts[i].creator.id = posts[j].creator.id
               /\ posts[i].creator.service = posts[j].creator.service)
            => posts[i].creator.obj = posts[j].creator.obj
    /\ \A k \in Keys :
          /\ Successes(ProfileUrlOf(k)) <= 1
          /\ CacheHit(cache, k) <=> Successes(ProfileUrlOf(k)) = 1
    /\ \A i \in 1..Len(posts) :
          LET k == <<posts[i].creator.id, posts[i].creator.service>> IN
          CacheHit(cache, k) /\ cache[k] = posts[i].creator

C8_Witness ==
    /\ Len(posts) = 2
    /\ posts[1].id # posts[2].id
    /\ posts[1].creator = posts[2].creator
    /\ Successes(ProfileUrlOf(<<"c1", "fanbox">>)) = 1

\* C10: for a batch of N submitted tasks of which M ended failed,
\* summarize_download computes submittedCount = N and succeededCount =
\* N - M; N is the number of attachments of the resolved posts, and the
\* failed tasks are those whose download URL never answered successfully.
C10_SummaryCounts ==
    summary.computed =>
        LET N == Len(tasks)
            M == Cardinality({t \in TaskIds : tasks[t].call.status = "raised"})
        IN
        /\ summary.total_files_submitted = N
        /\ summary.total_files_downloaded = N - M
        /\ N = Len(ExpectedOrder(urls))
        /\ M = Cardinality({t \in TaskIds : ~net[TaskUrl(t)].up})

C10_Witness ==
    /\ summary.computed
    /\ summary.total_files_submitted = 4
    /\ summary.total_files_downloaded = 1

\* the bytes the succeeded tasks downloaded: the sum of their bodies' sizes
RECURSIVE DownloadedBytes(_)
DownloadedBytes(ts) ==
    IF ts = << >> THEN 0
    ELSE (IF Head(ts).call.status = "returned" THEN BodySize(Head(ts).att.path) ELSE 0)
         + DownloadedBytes(Tail(ts))

\* C11: totalBytes computed by summarize_download equals the sum, over the
\* succeeded tasks only, of the byte size of the body each task downloaded,
\* failed tasks contributing nothing; also when several attachments of the
\* batch resolve to the same local path.
C11_TotalBytes ==
    summary.computed => summary.total_file_size = DownloadedBytes(tasks)

\* C12: every failed attempt of a retry-wrapped operation is logged, the
\* intermediate ones that are retried included: once a call has ended, its
\* error, if any, logged, a body that failed k times has produced k error
\* log events.  This is
\* stated of each download_attachment call, of the get_post_data call for
\* the current URL and of the get_creator_data calls for each creator.
C12_EveryFailureLogged ==
    /\ \A t \in TaskIds :
          tasks[t].state = "FINISHED" => logged[TaskUrl(t)] = tasks[t].call.fails
    /\ (pcall.status # "running" /\ pc # "log") => logged[CurrentPostUrl] = pcall.fails
    /\ pc \notin {"profile", "clog"} =>
          \A k \in Keys : logged[ProfileUrlOf(k)] = net[ProfileUrlOf(k)].fails

\* the sizes of the bodies the tasks that returned wrote to a path
Bodies(path) ==
    {BodySize(tasks[t].att.path) :
        t \in {u \in TaskIds : tasks[u].call.status = "returned"
                                  /\ FilePath(tasks[u].att) = path}}

\* a regular file stands where the folder of task t must go
Blocked(t) == \E q \in Prefixes(tasks[t].att.parent_path) : q \in DOMAIN files

\* C13: downloading an attachment whose destination folder, and file, exist
\* from an earlier run succeeds: no call fails on the existing directory, a
\* task ends failed only when its download URL never answered, and once a
\* task has returned, its file holds the new body, never the earlier one
\* (where no other task of the batch writes the same path: see C16).
\* Downloading again leaves what downloading once leaves: when every task
\* has returned, the folders and the files are those of the requested
\* posts, each file as long as the body of a task that wrote it, whatever
\* the earlier run had left.  Only a regular file in the folder's place
\* makes mkdir raise, and no run leaves one there.
C13_RedownloadIdempotent ==
    /\ \A t \in TaskIds :
          /\ tasks[t].call.last.type \in {"FileExistsError", "NotADirectoryError",
                                           "FileNotFoundError"}
                => Blocked(t)
          /\ Blocked(t) => net[TaskUrl(t)].reqs = 0 /\ tasks[t].call.status # "returned"
          /\ (tasks[t].state = "FINISHED" /\ ~Blocked(t)) =>
                (tasks[t].call.status = "returned" <=> net[TaskUrl(t)].up)
          /\ tasks[t].call.status = "returned" =>
                /\ tasks[t].result = FilePath(tasks[t].att)
                /\ tasks[t].result \in DOMAIN files
                /\ tasks[t].att.parent_path \in dirs
                /\ (\A u \in TaskIds : FilePath(tasks[u].att) = tasks[t].result => u = t)
                      => files[tasks[t].result] = BodySize(tasks[t].att.path)
    /\ (pc = "done" /\ \A t \in TaskIds : tasks[t].call.status = "returned") =>
          /\ dirs = LocalDirs(urls)
          /\ DOMAIN files = LocalPaths(urls)
          /\ \A p \in DOMAIN files : files[p] \in Bodies(p)

\* an earlier run's file is still there under a task that failed, and
\* another task of the same folder has replaced its own
C13_Witness ==
    /\ pc = "done"
    /\ \E t, u \in TaskIds :
          /\ tasks[t].call.status = "raised"
          /\ FilePath(tasks[t].att) \in DOMAIN files
          /\ files[FilePath(tasks[t].att)] = StaleSize
          /\ tasks[u].call.status = "returned"
          /\ tasks[u].att.parent_path = tasks[t].att.parent_path
          /\ tasks[u].call.attempts = 2
          /\ files[tasks[u].result] = BodySize(tasks[u].att.path)

\* C14: within one get_post_data call the post endpoint is requested at
\* most 5 times and the creator's profile endpoint at most 5 times; a
\* failure while resolving the creator ends the call without the post
\* endpoint being fetched again, and a cache miss costs one retried profile
\* fetch.  (In a run the profile endpoint is requested within one
\* get_post_data call only: a call that fails ends the run and a call that
\* returns has filled the cache.)
C14_IndependentBudgets ==
    /\ net[CurrentPostUrl].reqs <= MAX_ATTEMPTS
    /\ \A k \in Keys : net[ProfileUrlOf(k)].reqs <= MAX_ATTEMPTS
    /\ pcall.last.type = "RetryError" =>
          /\ pcall.status = "raised"
          /\ net[CurrentPostUrl].reqs = net[CurrentPostUrl].fails + 1
    /\ pc = "profile" => ccall.attempts = net[ProfileUrlOf(CreatorKey(PostJson(Args[3])))].reqs

\* C15: the metadata of all requested posts is resolved and the whole task
\* list is built before any download starts executing: while a task is
\* running or has run, no get_post_data is outstanding and nothing is left
\* to submit.
C15_MetadataBeforeDownloads ==
    (\E t \in TaskIds : tasks[t].state # "PENDING") =>
        /\ pc \notin {"resolve", "profile", "submit"}
        /\ Len(posts) = Len(urls)
        /\ Len(tasks) = Len(ExpectedOrder(urls))

\* C16: no two download tasks of one batch write to the same local file
\* path, parent_path / filename, so no two workers ever write the same
\* file.
C16_DistinctFiles ==
    \A t, u \in TaskIds :
        FilePath(tasks[t].att) = FilePath(tasks[u].att) => t = u

\* C17: when every request is answered and the threads are scheduled
\* fairly, download_posts eventually returns or raises with every submitted
\* task in a terminal state, and no task is ever attempted more than 5
\* times: the batch never waits forever.
C17_Termination ==
    /\ <>(pc \in {"returned", "raised"} /\ AllFinished(tasks))
    /\ [](\A t \in TaskIds : tasks[t].call.attempts <= MAX_ATTEMPTS)

C17_Witness ==
    /\ pc = "returned"
    /\ thread_count = 1
    /\ Len(tasks) = 4
    /\ AllFinished(tasks)
    /\ \E t \in TaskIds :
          tasks[t].call.status = "raised" /\ tasks[t].call.attempts = MAX_ATTEMPTS
    /\ \E t \in TaskIds : tasks[t].call.status = "returned" /\ tasks[t].call.attempts = 2

\* C18: posts are resolved lazily, interleaved with submission.  When
\* get_post_data has failed, after its retries, for the k-th URL, the
\* submitted tasks are exactly those of URLs 1..k-1 and stay so, none of
\* them is cancelled, all of them are finished before the error leaves
\* download_posts, and download_posts raises instead of returning: no list
\* reaches summarize_download.  Before that, the posts resolved are those
\* of the URLs before the one the generator is at.
C18_LazyResolution ==
    /\ Len(posts) \in {ui - 1, ui}
    /\ \A i \in 1..Len(posts) : posts[i].id = UrlArgs(urls[i])[3]
    /\ pc \in {"resolve", "profile", "clog", "craise", "log", "raise"} =>
          /\ Len(posts) = ui - 1
          /\ Len(tasks) = Len(ExpectedOrder(SubSeq(urls, 1, ui - 1)))
    /\ pcall.status = "raised" =>
          /\ pc \in {"log", "raise", "shutdown", "raised"}
          /\ Len(posts) = ui - 1
          /\ Len(tasks) = Len(ExpectedOrder(SubSeq(urls, 1, ui - 1)))
          /\ \A t \in TaskIds :
                /\ tasks[t].att.path = ExpectedOrder(urls)[t]
                /\ tasks[t].state \in {"PENDING", "RUNNING", "FINISHED"}
          /\ ~summary.computed
    /\ pc = "raised" =>
          /\ pcall.status = "raised"
          /\ \A t \in TaskIds :
                tasks[t].state = "FINISHED"
                    /\ tasks[t].call.status \in {"returned", "raised"}

C18_Witness ==
    /\ pc = "raised"
    /\ Len(urls) = 2
    /\ ui = 2
    /\ UrlArgs(urls[1])[3] = "11"
    /\ UrlArgs(urls[2])[3] = "12"
    /\ Len(tasks) = 3
    /\ \E t \in TaskIds : tasks[t].call.status = "returned"

\* the GET of an attempt of task t has just failed
AttemptFailed(t) ==
    tasks[t].at = "get" /\ tasks'[t].call.fails = tasks[t].call.fails + 1

\* C19: a download_attachment attempt whose GET raises or answers with a
\* non-success status leaves every file as it was, the one at its own
\* destination included: a task opens its file only once its URL has
\* answered successfully.  The destination folder is created before the GET
\* and exists from the first attempt on, also when all 5 attempts fail.
C19_FailedAttemptFrame ==
    /\ [][\A t \in TaskIds :
          AttemptFailed(t) =>
              /\ files' = files
              /\ Prefixes(tasks[t].att.parent_path) \subseteq dirs
              /\ dirs' = dirs
              /\ net'[TaskUrl(t)].reqs = net[TaskUrl(t)].reqs + 1]_vars
    /\ [](\A t \in TaskIds :
            /\ (tasks[t].at = "get" \/ net[TaskUrl(t)].reqs >= 1) =>
                  Prefixes(tasks[t].att.parent_path) \subseteq dirs
            /\ (tasks[t].call.attempts >= 1 /\ ~Blocked(t)) =>
                  Prefixes(tasks[t].att.parent_path) \subseteq dirs
            /\ tasks[t].at \in {"open", "write", "return"} => net[TaskUrl(t)].up)

\* all 5 attempts of a task have failed: its folder exists and the earlier
\* run's file is still at its destination
C19_Witness ==
    \E t \in TaskIds :
        /\ tasks[t].call.status = "raised"
        /\ tasks[t].call.fails = MAX_ATTEMPTS
        /\ tasks[t].att.parent_path \in dirs
        /\ FilePath(tasks[t].att) \in DOMAIN files
        /\ files[FilePath(tasks[t].att)] = StaleSize

\* the key get_post_data resolves for the URL the generator is at
CurrentKey == CreatorKey(PostJson(Args[3]))

\* C20: the creator cache stores successes only.  A key is cached exactly
\* when a profile fetch for it has succeeded; a resolution that fails after
\* its 5 attempts leaves the cache as it was, and the next resolution of
\* that key, finding nothing, starts a fresh fetch; an entry, once stored,
\* is never evicted or replaced and its key is never requested again.
C20_CacheSuccessesOnly ==
    /\ [](\A k \in Keys : CacheHit(cache, k) <=> Successes(ProfileUrlOf(k)) >= 1)
    /\ [][(ccall'.status = "raised" /\ ccall # ccall') => cache' = cache]_vars
    /\ [][(ccall.status = "raised" /\ pc = "resolve"
              /\ Successes(CurrentPostUrl)' = Successes(CurrentPostUrl) + 1)
            => (~CacheHit(cache, CurrentKey) /\ pc' = "profile" /\ ccall' = NewCall)]_vars
    /\ [][\A k \in DOMAIN cache :
              /\ CacheHit(cache', k)
              /\ cache'[k] = cache[k]
              /\ net'[ProfileUrlOf(k)] = net[ProfileUrlOf(k)]]_vars

\* a resolution failed after 5 attempts, the next one fetched afresh and
\* succeeded, and its entry is in the cache when the run ends
C20_Witness ==
    /\ pc = "done"
    /\ pcall.fails = 1
    /\ pcall.last.type = "RetryError"
    /\ CacheHit(cache, CurrentKey)
    /\ net[ProfileUrlOf(CurrentKey)].fails = MAX_ATTEMPTS
    /\ Successes(ProfileUrlOf(CurrentKey)) = 1
    /\ Len(tasks) >= 1

====
